---- MODULE Spec2Model ----
(***************************************************************************)
(* SceneJS.BoundingBox (src/src/scenejs/boundary/boundingBox.js): a scene  *)
(* node that classifies its boundary against the locality radii and the    *)
(* view frustum once per traversal frame, memoises its transformed         *)
(* geometry and optionally selects one child by projected size (LOD).      *)
(*                                                                         *)
(* The node's fields are the variables.  A JavaScript value that may be    *)
(* undefined or null is a tagged record (Undefined, Null, Val(v)).         *)
(* Collaborators (transform, locality, frustum, instancing modules and the *)
(* dynamic configuration function) answer nondeterministically.            *)
(***************************************************************************)
EXTENDS Integers, Sequences, FiniteSets

\* ------------------------------------------------------------------ bounds
MaxChildren == 2
MaxExtent == 1
MaxThreshold == 2
MaxSetterCalls == 1

ExtentValues == 0..MaxExtent
ThresholdValues == 1..MaxThreshold
Sizes == 0..MaxThreshold

\* --------------------------------------------------------- JavaScript values
Undefined == [tag |-> "undefined"]
Null == [tag |-> "null"]
Val(v) == [tag |-> "value", val |-> v]

\* if (x) on an array or object reference: undefined and null are falsy
Truthy(x) == x.tag = "value"

\* x || 0 on a number or a missing property
OrZero(x) == IF x.tag = "value" /\ x.val # 0 THEN x.val ELSE 0

\* ------------------------------------------------------------ state constants
STATE_INITIAL == 0
STATE_OUTSIDE_OUTER_LOCALITY == 1
STATE_INTERSECTING_OUTER_LOCALITY == 2
STATE_INTERSECTING_INNER_LOCALITY == 3
STATE_INTERSECTING_FRUSTUM == 4

VARIABLES
    phase,         \* "new" (fields initialised), "ready" (constructed), "failed" (constructor threw)
    children,      \* this._children.length
    fixedParams,   \* this._fixedParams
    listeners,     \* names with a listener in this._listeners
    xmin, ymin, zmin, xmax, ymax, zmax,
    levels,        \* this._levels
    level,         \* this._level
    state,         \* this._state
    objectCoords,  \* this._objectCoords
    viewBox,       \* this._viewBox
    memoLevel,     \* this._memoLevel
    op,            \* the operation that ran last
    setterCalls,   \* number of setter calls so far (capped by MaxSetterCalls)
    frame,         \* what the last operation did: calls, events, visits
    quiet          \* a copy of the node with no listener, given the same operations:
                   \* its fields (node) and the outcome of its last _render (frame)

vars == <<phase, children, fixedParams, listeners, xmin, ymin, zmin, xmax, ymax, zmax,
          levels, level, state, objectCoords, viewBox, memoLevel, op, setterCalls, frame, quiet>>

\* The node's own fields as one record, the "this" the methods work on.
This ==
    [xmin |-> xmin, ymin |-> ymin, zmin |-> zmin, xmax |-> xmax, ymax |-> ymax, zmax |-> zmax,
     levels |-> levels, level |-> level, state |-> state,
     objectCoords |-> objectCoords, viewBox |-> viewBox, memoLevel |-> memoLevel]

\* ------------------------------------------------------------ inputs
\* Configuration objects: each extent present or missing, levels missing or an array.
Cube(lo, hi) ==
    [xmin |-> Val(lo), ymin |-> Val(lo), zmin |-> Val(lo),
     xmax |-> Val(hi), ymax |-> Val(hi), zmax |-> Val(hi)]

NoExtents ==
    [xmin |-> Undefined, ymin |-> Undefined, zmin |-> Undefined,
     xmax |-> Undefined, ymax |-> Undefined, zmax |-> Undefined]

Boundaries == {NoExtents, Cube(0, MaxExtent)}

LevelTables == UNION {[1..n -> ThresholdValues] : n \in 0..MaxChildren}

LevelParams == {Undefined} \cup {Val(t) : t \in LevelTables}

\* The configurations a node is built or re-evaluated with: the boundary of the cube
\* 0..MaxExtent, with or without a levels array.
Params == {[boundary |-> Cube(0, MaxExtent), levels |-> l] : l \in LevelParams}

\* The model transform module's answer: a matrix with its identity and fixed flags.
Matrices == {"identity", "mirror"}

Transforms == {[matrix |-> m, identity |-> (m = "identity"), fixed |-> f] : m \in Matrices, f \in BOOLEAN}

FrustumResults == {"inside", "intersect", "outside"}

\* ------------------------------------------------------------ geometry
\* The eight object-space corners, in the order the code lists them.
Corners(n) ==
    << <<n.xmin, n.ymin, n.zmin>>, <<n.xmax, n.ymin, n.zmin>>,
       <<n.xmax, n.ymax, n.zmin>>, <<n.xmin, n.ymax, n.zmin>>,
       <<n.xmin, n.ymin, n.zmax>>, <<n.xmax, n.ymin, n.zmax>>,
       <<n.xmax, n.ymax, n.zmax>>, <<n.xmin, n.ymax, n.zmax>> >>

\* The view-space box of an untransformed boundary.
ExtentsBox(n) ==
    [min |-> <<n.xmin, n.ymin, n.zmin>>, max |-> <<n.xmax, n.ymax, n.zmax>>]

\* One point through a matrix: the identity or a point mirror.
TransformPoint(m, p) ==
    CASE m = "identity" -> p
      [] m = "mirror" -> <<0 - p[1], 0 - p[2], 0 - p[3]>>

_math_transformPoints3(m, pts) ==
    [i \in 1..Len(pts) |-> TransformPoint(m, pts[i])]

MinOf(S) == CHOOSE x \in S : \A y \in S : x <= y
MaxOf(S) == CHOOSE x \in S : \A y \in S : x >= y

\* The axis-aligned bounds of a point list.
Box3_fromPoints(pts) ==
    [min |-> [k \in 1..3 |-> MinOf({pts[i][k] : i \in 1..Len(pts)})],
     max |-> [k \in 1..3 |-> MaxOf({pts[i][k] : i \in 1..Len(pts)})]]

\* ------------------------------------------------------------ setters
\* A setter that forgets to reset the memo level.
setXMinKeepsMemo(n, v) == [n EXCEPT !.xmin = v]

setXMin(n, v) == [n EXCEPT !.xmin = v, !.memoLevel = 0]
setYMin(n, v) == [n EXCEPT !.ymin = v, !.memoLevel = 0]
setZMin(n, v) == [n EXCEPT !.zmin = v, !.memoLevel = 0]
setXMax(n, v) == [n EXCEPT !.xmax = v, !.memoLevel = 0]
setYMax(n, v) == [n EXCEPT !.ymax = v, !.memoLevel = 0]
setZMax(n, v) == [n EXCEPT !.zmax = v, !.memoLevel = 0]

setBoundary(n, boundary) ==
    [n EXCEPT !.xmin = OrZero(boundary.xmin), !.ymin = OrZero(boundary.ymin),
              !.zmin = OrZero(boundary.zmin), !.xmax = OrZero(boundary.xmax),
              !.ymax = OrZero(boundary.ymax), !.zmax = OrZero(boundary.zmax),
              !.memoLevel = 0]

\* ------------------------------------------------------------ _init
\* levels must have one value per child
LevelsLengthMismatch(lv, nChildren) == Len(lv) # nChildren

\* An ascending check that lets equal neighbours through.
LevelsDescending(lv) == \E i \in 2..Len(lv) : lv[i - 1] > lv[i]

\* levels must be an ascending list of unique values
LevelsNotAscending(lv) == \E i \in 2..Len(lv) : lv[i - 1] >= lv[i]

\* Which configuration exception _init throws for params, if any.
InitError(params, nChildren) ==
    IF ~Truthy(params.levels) THEN "none"
    ELSE IF LevelsLengthMismatch(params.levels.val, nChildren) THEN "length"
    ELSE IF LevelsNotAscending(params.levels.val) THEN "ascending"
    ELSE "none"

\* _init: the extents are written first, then levels is validated and installed.
\* The result is the node after the call and the exception thrown ("none": returned).
_init(n, params, nChildren) ==
    LET b == params.boundary
        err == InitError(params, nChildren)
        n1 == [n EXCEPT !.xmin = OrZero(b.xmin), !.ymin = OrZero(b.ymin),
                        !.zmin = OrZero(b.zmin), !.xmax = OrZero(b.xmax),
                        !.ymax = OrZero(b.ymax), !.zmax = OrZero(b.zmax)]
    IN  [err |-> err,
         node |-> IF Truthy(params.levels) /\ err = "none"
                  THEN [n1 EXCEPT !.levels = params.levels]
                  ELSE n1]

\* ------------------------------------------------------------ _changeState
\* A state change that is stored only when somebody listens for it.
_changeStateIfListening(n, newState, lst) ==
    IF "state-changed" \in lst
    THEN [node |-> [n EXCEPT !.state = newState],
          events |-> << [name |-> "state-changed", oldState |-> newState, newState |-> newState] >>]
    ELSE [node |-> n, events |-> << >>]

\* The state is assigned before the payload reads it back as oldState.
_changeState(n, newState, lst) ==
    LET n1 == [n EXCEPT !.state = newState]
    IN  [node |-> n1,
         events |-> IF "state-changed" \in lst
                    THEN << [name |-> "state-changed", oldState |-> n1.state, newState |-> newState] >>
                    ELSE << >>]

\* if (newState != origState) this._changeState(newState)
ChangeIfNew(n, newState, origState, lst) ==
    IF newState # origState
    THEN _changeState(n, newState, lst)
    ELSE [node |-> n, events |-> << >>]

\* ------------------------------------------------------------ _render
\* A refresh that keeps corners it already has instead of rebuilding them.
RefreshDirtyKeepsCorners(n, fixed, params, nChildren, t) ==
    IF n.memoLevel # 0 THEN [err |-> "none", node |-> n]
    ELSE
        LET n1 == [n EXCEPT !.state = STATE_INITIAL]
            r == IF ~fixed
                 THEN _init(n1, params, nChildren)
                 ELSE [err |-> "none", node |-> [n1 EXCEPT !.memoLevel = 1]]
        IN  IF r.err # "none" THEN r
            ELSE IF ~t.identity
            THEN [err |-> "none",
                  node |-> IF Truthy(r.node.objectCoords) THEN r.node
                           ELSE [r.node EXCEPT !.objectCoords = Val(Corners(r.node))]]
            ELSE [err |-> "none",
                  node |-> [r.node EXCEPT !.viewBox = Val(ExtentsBox(r.node)),
                                          !.memoLevel = 2]]

\* A refresh that re-evaluates a dynamic configuration at every memo level.
RefreshDirtyDynamicAlways(n, fixed, params, nChildren, t) ==
    IF n.memoLevel # 0 /\ fixed THEN [err |-> "none", node |-> n]
    ELSE
        LET n1 == [n EXCEPT !.state = STATE_INITIAL]
            r == IF ~fixed
                 THEN _init(n1, params, nChildren)
                 ELSE [err |-> "none", node |-> [n1 EXCEPT !.memoLevel = 1]]
        IN  IF r.err # "none" THEN r
            ELSE IF ~t.identity
            THEN [err |-> "none",
                  node |-> [r.node EXCEPT !.objectCoords = Val(Corners(r.node))]]
            ELSE [err |-> "none",
                  node |-> [r.node EXCEPT !.viewBox = Val(ExtentsBox(r.node)),
                                          !.memoLevel = 2]]

\* Lines 360-392: at memo level 0 the state is reset, a dynamically configured node
\* re-evaluates its configuration, and the object-space geometry is rebuilt.
RefreshDirty(n, fixed, params, nChildren, t) ==
    IF n.memoLevel # 0 THEN [err |-> "none", node |-> n]
    ELSE
        LET n1 == [n EXCEPT !.state = STATE_INITIAL]
            r == IF ~fixed
                 THEN _init(n1, params, nChildren)
                 ELSE [err |-> "none", node |-> [n1 EXCEPT !.memoLevel = 1]]
        IN  IF r.err # "none" THEN r
            ELSE IF ~t.identity
            THEN [err |-> "none",
                  node |-> [r.node EXCEPT !.objectCoords = Val(Corners(r.node))]]
            ELSE [err |-> "none",
                  node |-> [r.node EXCEPT !.viewBox = Val(ExtentsBox(r.node)),
                                          !.memoLevel = 2]]

\* A view refresh that promotes to memo level 2 but keeps the corners.
RefreshViewKeepsCorners(n, t, instancing) ==
    IF ~(n.memoLevel < 2) THEN [err |-> "none", node |-> n]
    ELSE IF ~Truthy(n.objectCoords) THEN [err |-> "type", node |-> n]
    ELSE
        LET n1 == [n EXCEPT !.viewBox =
                       Val(Box3_fromPoints(_math_transformPoints3(t.matrix, n.objectCoords.val)))]
        IN  [err |-> "none",
             node |-> IF t.fixed /\ n1.memoLevel = 1 /\ ~instancing
                      THEN [n1 EXCEPT !.memoLevel = 2]
                      ELSE n1]

\* A view refresh that promotes to memo level 2 without asking about instancing.
RefreshViewIgnoresInstancing(n, t, instancing) ==
    IF ~(n.memoLevel < 2) THEN [err |-> "none", node |-> n]
    ELSE IF ~Truthy(n.objectCoords) THEN [err |-> "type", node |-> n]
    ELSE
        LET n1 == [n EXCEPT !.viewBox =
                       Val(Box3_fromPoints(_math_transformPoints3(t.matrix, n.objectCoords.val)))]
        IN  [err |-> "none",
             node |-> IF t.fixed /\ n1.memoLevel = 1
                      THEN [n1 EXCEPT !.objectCoords = Null, !.memoLevel = 2]
                      ELSE n1]

\* Lines 394-405: below memo level 2 the corners are transformed into the view-space
\* box; a fixed transform outside instancing promotes level 1 to level 2.
RefreshView(n, t, instancing) ==
    IF ~(n.memoLevel < 2) THEN [err |-> "none", node |-> n]
    ELSE IF ~Truthy(n.objectCoords) THEN [err |-> "type", node |-> n]
    ELSE
        LET n1 == [n EXCEPT !.viewBox =
                       Val(Box3_fromPoints(_math_transformPoints3(t.matrix, n.objectCoords.val)))]
        IN  [err |-> "none",
             node |-> IF t.fixed /\ n1.memoLevel = 1 /\ ~instancing
                      THEN [n1 EXCEPT !.objectCoords = Null, !.memoLevel = 2]
                      ELSE n1]

\* A scan that runs upwards and stops at the first threshold that is <= size.
ScanLevelsUp(lv, size, i) ==
    LET fit == {j \in 0..i : lv[j + 1] <= size}
    IN  IF fit = {} THEN -1 ELSE CHOOSE j \in fit : \A k \in fit : j <= k

\* Lines 435-461: scan the thresholds downwards from index i (0-based, as in the code);
\* the first index whose threshold is <= size, or -1 when the loop runs out.
RECURSIVE ScanLevels(_, _, _)
ScanLevels(lv, size, i) ==
    IF i < 0 THEN -1
    ELSE IF lv[i + 1] <= size THEN i
    ELSE ScanLevels(lv, size, i - 1)

\* _renderNodes visits every child; _renderNode(i) visits child i.
AllChildren(nChildren) == 0..(nChildren - 1)

\* A selection that visits the selected child and every child below it.
SelectAndVisitUpTo(n, origLevel, lst, nChildren, size) ==
    IF Truthy(n.levels)
    THEN
        LET i == ScanLevels(n.levels.val, size, Len(n.levels.val) - 1)
        IN  IF i >= 0
            THEN [node |-> [n EXCEPT !.level = i],
                  calls |-> <<"size">>,
                  selected |-> i,
                  events |-> IF origLevel # i /\ "lod-selected" \in lst
                             THEN << [name |-> "lod-selected", oldLevel |-> origLevel, newLevel |-> i] >>
                             ELSE << >>,
                  visited |-> 0..i]
            ELSE [node |-> n, calls |-> <<"size">>, selected |-> -1,
                  events |-> << >>, visited |-> {}]
    ELSE [node |-> n, calls |-> << >>, selected |-> -1,
          events |-> << >>, visited |-> AllChildren(nChildren)]

\* Lines 432-464: what the frame does once the frustum test passed.
SelectAndVisit(n, origLevel, lst, nChildren, size) ==
    IF Truthy(n.levels)
    THEN
        LET i == ScanLevels(n.levels.val, size, Len(n.levels.val) - 1)
        IN  IF i >= 0
            THEN [node |-> [n EXCEPT !.level = i],
                  calls |-> <<"size">>,
                  selected |-> i,
                  events |-> IF origLevel # i /\ "lod-selected" \in lst
                             THEN << [name |-> "lod-selected", oldLevel |-> origLevel, newLevel |-> i] >>
                             ELSE << >>,
                  visited |-> IF nChildren > 0 THEN {i} ELSE AllChildren(nChildren)]
            ELSE [node |-> n, calls |-> <<"size">>, selected |-> -1,
                  events |-> << >>, visited |-> {}]
    ELSE [node |-> n, calls |-> << >>, selected |-> -1,
          events |-> << >>, visited |-> AllChildren(nChildren)]

\* The four ends of the cascade.  Each takes the frame's context: the node, the
\* state and level held at entry, the listeners, the child count, the answers.

\* Lines 487-491: outside the outer radius; nothing is visited.
OutsideOuter(n, origState, origLevel, lst, nChildren, ans) ==
    LET c == ChangeIfNew(n, STATE_OUTSIDE_OUTER_LOCALITY, origState, lst)
    IN  [node |-> c.node, calls |-> <<"outer">>,
         computed |-> STATE_OUTSIDE_OUTER_LOCALITY,
         selected |-> -1, events |-> c.events, visited |-> {}]

\* A staging visit that is skipped on a node with levels.
IntersectingOuterGated(n, origState, origLevel, lst, nChildren, ans) ==
    LET c == ChangeIfNew(n, STATE_INTERSECTING_OUTER_LOCALITY, origState, lst)
    IN  [node |-> c.node, calls |-> <<"outer", "inner">>,
         computed |-> STATE_INTERSECTING_OUTER_LOCALITY,
         selected |-> -1, events |-> c.events,
         visited |-> IF Truthy(n.levels) THEN {} ELSE AllChildren(nChildren)]

\* Lines 474-486: inside the outer radius only; every child is visited (staging).
IntersectingOuter(n, origState, origLevel, lst, nChildren, ans) ==
    LET c == ChangeIfNew(n, STATE_INTERSECTING_OUTER_LOCALITY, origState, lst)
    IN  [node |-> c.node, calls |-> <<"outer", "inner">>,
         computed |-> STATE_INTERSECTING_OUTER_LOCALITY,
         selected |-> -1, events |-> c.events, visited |-> AllChildren(nChildren)]

\* A frustum miss that still visits the children, as the staging branch does.
OutsideFrustumStaged(n, origState, origLevel, lst, nChildren, ans) ==
    LET c == ChangeIfNew(n, STATE_INTERSECTING_INNER_LOCALITY, origState, lst)
    IN  [node |-> c.node, calls |-> <<"outer", "inner", "frustum">>,
         computed |-> STATE_INTERSECTING_INNER_LOCALITY,
         selected |-> -1, events |-> c.events, visited |-> AllChildren(nChildren)]

\* Lines 467-472: inside the inner radius, outside the frustum; nothing is visited.
OutsideFrustum(n, origState, origLevel, lst, nChildren, ans) ==
    LET c == ChangeIfNew(n, STATE_INTERSECTING_INNER_LOCALITY, origState, lst)
    IN  [node |-> c.node, calls |-> <<"outer", "inner", "frustum">>,
         computed |-> STATE_INTERSECTING_INNER_LOCALITY,
         selected |-> -1, events |-> c.events, visited |-> {}]

\* Lines 417-465: inside or intersecting the frustum.
IntersectingFrustum(n, origState, origLevel, lst, nChildren, ans) ==
    LET c == ChangeIfNew(n, STATE_INTERSECTING_FRUSTUM, origState, lst)
        s == SelectAndVisit(c.node, origLevel, lst, nChildren, ans.size)
    IN  [node |-> s.node, calls |-> <<"outer", "inner", "frustum">> \o s.calls,
         computed |-> STATE_INTERSECTING_FRUSTUM,
         selected |-> s.selected, events |-> c.events \o s.events,
         visited |-> s.visited]

\* A cascade that runs the inner radius test before it looks at the outer result.
ClassifyEager(n, origState, origLevel, lst, nChildren, ans) ==
    IF ~ans.outer
    THEN [OutsideOuter(n, origState, origLevel, lst, nChildren, ans)
             EXCEPT !.calls = <<"outer", "inner">>]
    ELSE IF ~ans.inner THEN IntersectingOuter(n, origState, origLevel, lst, nChildren, ans)
    ELSE IF ans.frustum = "outside"
    THEN OutsideFrustum(n, origState, origLevel, lst, nChildren, ans)
    ELSE IntersectingFrustum(n, origState, origLevel, lst, nChildren, ans)

\* A cascade that skips the inner radius test.
ClassifyNoInner(n, origState, origLevel, lst, nChildren, ans) ==
    IF ~ans.outer THEN OutsideOuter(n, origState, origLevel, lst, nChildren, ans)
    ELSE [IntersectingFrustum(n, origState, origLevel, lst, nChildren, ans)
             EXCEPT !.calls = <<"outer">>]

\* Lines 407-416: the cascade outer radius -> inner radius -> frustum.
\* ans holds what the collaborators would answer; only the calls made are recorded.
Classify(n, origState, origLevel, lst, nChildren, ans) ==
    IF ~ans.outer THEN OutsideOuter(n, origState, origLevel, lst, nChildren, ans)
    ELSE IF ~ans.inner THEN IntersectingOuter(n, origState, origLevel, lst, nChildren, ans)
    ELSE IF ans.frustum = "outside"
    THEN OutsideFrustum(n, origState, origLevel, lst, nChildren, ans)
    ELSE IntersectingFrustum(n, origState, origLevel, lst, nChildren, ans)

\* ------------------------------------------------------------ observation
\* What one operation did, as seen from outside: the levels of the configuration it
\* evaluated, the exception it threw, what it read of the transform and what geometry
\* it used (view), the collaborator calls it made with their answers, the
\* notifications it delivered and the children it visited.
NotUsed == [tag |-> "unused"]

NoView ==
    [matrix |-> "unread", fixed |-> FALSE, instancing |-> "uncalled",
     corners |-> NotUsed, box |-> NotUsed]

NoFrame ==
    [cfg |-> Undefined, err |-> "none", view |-> NoView,
     calls |-> << >>, outer |-> FALSE, inner |-> FALSE, frustum |-> "uncalled", size |-> -1,
     computed |-> STATE_INITIAL, selected |-> -1,
     events |-> << >>, visited |-> {}]

Called(f, fn) == \E i \in 1..Len(f.calls) : f.calls[i] = fn

\* A frame that threw before classifying: it computes no state, so computed stays the
\* state the latest classification computed; it selects no level.
AbortedFrame(f, cfg, err) ==
    [NoFrame EXCEPT !.cfg = cfg, !.err = err, !.computed = f.computed]

\* A setter call: it asks no collaborator, delivers nothing and visits nothing; the
\* state and level the latest frame computed and selected stay on record.
SetterFrame(f) == [NoFrame EXCEPT !.computed = f.computed, !.selected = f.selected]

\* The matrix the transform module hands a frame entered at memo level memo.
MatrixRead(memo, t) == IF memo < 2 THEN t.matrix ELSE "unread"

\* What a frame entered at memo level memo read and used, where d is the node after
\* the memo-level-0 step and v the node handed to the tests: the matrix; the fixed
\* flag and the instancing answer, read at line 401; the corners handed to
\* _math_transformPoints3 at line 399; the box handed to the tests at lines 409-433.
ViewRead(memo, d, v, t, instancing) ==
    [matrix |-> MatrixRead(memo, t),
     fixed |-> d.memoLevel < 2 /\ t.fixed,
     instancing |-> IF d.memoLevel = 1 /\ t.fixed
                    THEN (IF instancing THEN "active" ELSE "inactive")
                    ELSE "uncalled",
     corners |-> IF d.memoLevel < 2 THEN d.objectCoords ELSE NotUsed,
     box |-> v.viewBox]

\* A frame that ran its classification c on the collaborators' answers ans.
CompletedFrame(cfg, view, c, ans) ==
    [cfg |-> cfg, err |-> "none", view |-> view,
     calls |-> c.calls,
     outer |-> ans.outer,
     inner |-> IF Len(c.calls) >= 2 THEN ans.inner ELSE FALSE,
     frustum |-> IF Len(c.calls) >= 3 THEN ans.frustum ELSE "uncalled",
     size |-> IF Len(c.calls) >= 4 THEN ans.size ELSE -1,
     computed |-> c.computed, selected |-> c.selected,
     events |-> c.events, visited |-> c.visited]

\* What the locality and frustum modules answer in one frame.  A test the cascade
\* does not reach is not asked, so its answer is fixed here instead of enumerated;
\* the projected size is asked only of a node that has levels.
Answers(sizes) ==
    {[outer |-> FALSE, inner |-> FALSE, frustum |-> "outside", size |-> 0],
     [outer |-> TRUE, inner |-> FALSE, frustum |-> "outside", size |-> 0],
     [outer |-> TRUE, inner |-> TRUE, frustum |-> "outside", size |-> 0]}
    \cup {[outer |-> TRUE, inner |-> TRUE, frustum |-> fr, size |-> sz] :
             fr \in FrustumResults \ {"outside"}, sz \in sizes}

\* The configuration function is evaluated only by a dynamically configured node at
\* memo level 0 (line 362).
NoParams == [boundary |-> NoExtents, levels |-> Undefined]
ParamsAsked(n, fixed) == IF n.memoLevel = 0 /\ ~fixed THEN Params ELSE {NoParams}

\* A frame whose _init throws (line 363) reaches no collaborator.
Throws(n, fixed, params, nChildren) ==
    n.memoLevel = 0 /\ ~fixed /\ InitError(params, nChildren) # "none"

\* The transform is read only below memo level 2 (lines 367, 395).  Its fixed flag
\* is read only when line 401 is reached: not for an identity transform at memo
\* level 0 (line 390).
NoTransform == [matrix |-> "identity", identity |-> TRUE, fixed |-> FALSE]
TransformsAsked(n, fixed, params, nChildren) ==
    IF Throws(n, fixed, params, nChildren) \/ n.memoLevel >= 2 THEN {NoTransform}
    ELSE IF n.memoLevel = 1 THEN Transforms
    ELSE {t \in Transforms : t.identity => ~t.fixed}

\* instancing() is called only when fixed && memoLevel == 1 holds at line 401.
InstancingAsked(n, fixed, t) ==
    IF /\ t.fixed
       /\ \/ n.memoLevel = 1
          \/ n.memoLevel = 0 /\ fixed /\ ~t.identity
    THEN BOOLEAN
    ELSE {FALSE}

\* getProjectedSize is called only when the node has levels at line 432.
SizesAsked(n, params) ==
    IF Truthy(n.levels) \/ Truthy(params.levels) THEN Sizes ELSE {0}

AnswersAsked(n, fixed, params, nChildren) ==
    IF Throws(n, fixed, params, nChildren)
    THEN {[outer |-> FALSE, inner |-> FALSE, frustum |-> "outside", size |-> 0]}
    ELSE Answers(SizesAsked(n, params))

\* _render as a whole: the node and the observation after the frame.
Render(n, f, fixed, lst, nChildren, params, t, instancing, ans) ==
    LET origLevel == n.level
        origState == n.state
        cfg == IF n.memoLevel = 0 /\ ~fixed THEN params.levels ELSE Undefined
        d == RefreshDirty(n, fixed, params, nChildren, t)
    IN  IF d.err # "none"
        THEN [node |-> d.node, frame |-> AbortedFrame(f, cfg, d.err)]
        ELSE
            LET v == RefreshView(d.node, t, instancing)
            IN  IF v.err # "none"
                THEN [node |-> v.node, frame |-> AbortedFrame(f, cfg, v.err)]
                ELSE
                    LET c == Classify(v.node, origState, origLevel, lst, nChildren, ans)
                    IN  [node |-> c.node,
                         frame |-> CompletedFrame(cfg, ViewRead(n.memoLevel, d.node, v.node, t, instancing), c, ans)]

\* The outcome of a frame r: the node, and of the observation the exception, the
\* computed state, the notifications and the children visited.
Outcome(r) ==
    [node |-> r.node,
     frame |-> [NoFrame EXCEPT !.err = r.frame.err, !.computed = r.frame.computed,
                               !.events = r.frame.events, !.visited = r.frame.visited]]

\* ------------------------------------------------------------ state machine
\* The node is observed with no listener or with one for each of its two events.
ListenerSets == {{}, {"state-changed", "lod-selected"}}

\* The fields SceneJS.Node's constructor leaves: the children and listeners given,
\* static or dynamic configuration, memo level 0.
NodeFields ==
    /\ children \in 0..MaxChildren
    /\ fixedParams \in BOOLEAN
    /\ listeners \in ListenerSets
    /\ memoLevel = 0

\* Lines 81-95: the constructor's field initialisers (line 94 sets _objectsCoords,
\* so _objectCoords itself is left undefined).
Init ==
    /\ NodeFields
    /\ phase = "new"
    /\ xmin = 0 /\ ymin = 0 /\ zmin = 0
    /\ xmax = 0 /\ ymax = 0 /\ zmax = 0
    /\ levels = Null
    /\ level = -1
    /\ state = STATE_INITIAL
    /\ objectCoords = Undefined
    /\ viewBox = Null
    /\ op = "new"
    /\ setterCalls = 0
    /\ frame = NoFrame
    /\ quiet = [node |-> This, frame |-> NoFrame]

Install(n) ==
    /\ xmin' = n.xmin /\ ymin' = n.ymin /\ zmin' = n.zmin
    /\ xmax' = n.xmax /\ ymax' = n.ymax /\ zmax' = n.zmax
    /\ levels' = n.levels
    /\ level' = n.level
    /\ state' = n.state
    /\ objectCoords' = n.objectCoords
    /\ viewBox' = n.viewBox
    /\ memoLevel' = n.memoLevel

\* Lines 96-98: a statically configured node runs _init in its constructor.
Construct ==
    /\ phase = "new"
    /\ \E params \in IF fixedParams THEN Params ELSE {NoParams} :
       \E r \in {IF fixedParams
                 THEN _init(This, params, children)
                 ELSE [err |-> "none", node |-> This]} :
          /\ Install(r.node)
          /\ phase' = IF r.err = "none" THEN "ready" ELSE "failed"
          /\ frame' = [NoFrame EXCEPT !.cfg = params.levels, !.err = r.err]
          /\ \E q \in {IF fixedParams
                        THEN _init(quiet.node, params, children)
                        ELSE [err |-> "none", node |-> quiet.node]} :
                quiet' = [node |-> q.node, frame |-> [NoFrame EXCEPT !.err = q.err]]
    /\ op' = "construct"
    /\ UNCHANGED <<children, fixedParams, listeners, setterCalls>>

Setter(n, q) ==
    /\ phase = "ready"
    /\ setterCalls < MaxSetterCalls
    /\ setterCalls' = setterCalls + 1
    /\ Install(n)
    /\ frame' = SetterFrame(frame)
    /\ quiet' = [node |-> q, frame |-> [NoFrame EXCEPT !.computed = quiet.frame.computed]]
    /\ op' = "set"
    /\ UNCHANGED <<phase, children, fixedParams, listeners>>

SetXMin == \E v \in ExtentValues : Setter(setXMin(This, v), setXMin(quiet.node, v))
SetYMin == \E v \in ExtentValues : Setter(setYMin(This, v), setYMin(quiet.node, v))
SetZMin == \E v \in ExtentValues : Setter(setZMin(This, v), setZMin(quiet.node, v))
SetXMax == \E v \in ExtentValues : Setter(setXMax(This, v), setXMax(quiet.node, v))
SetYMax == \E v \in ExtentValues : Setter(setYMax(This, v), setYMax(quiet.node, v))
SetZMax == \E v \in ExtentValues : Setter(setZMax(This, v), setZMax(quiet.node, v))
SetBoundary == \E b \in Boundaries : Setter(setBoundary(This, b), setBoundary(quiet.node, b))

RenderFrame ==
    /\ phase = "ready"
    /\ \E params \in ParamsAsked(This, fixedParams) :
       \E t \in TransformsAsked(This, fixedParams, params, children),
          ans \in AnswersAsked(This, fixedParams, params, children) :
       \E instancing \in InstancingAsked(This, fixedParams, t) :
       \E r \in {Render(This, frame, fixedParams, listeners, children, params, t, instancing, ans)} :
          /\ Install(r.node)
          /\ frame' = r.frame
          /\ quiet' = Outcome(Render(quiet.node, quiet.frame, fixedParams, {}, children,
                                     params, t, instancing, ans))
    /\ op' = "render"
    /\ UNCHANGED <<phase, children, fixedParams, listeners, setterCalls>>

Next ==
    \/ Construct
    \/ SetXMin
    \/ SetYMin
    \/ SetZMin
    \/ SetXMax
    \/ SetYMax
    \/ SetZMax
    \/ SetBoundary
    \/ RenderFrame

Spec == Init /\ [][Next]_vars

\* ------------------------------------------------------------ properties
Fired(f, name) == \E i \in 1..Len(f.events) : f.events[i].name = name

\* The frame ran its classification (it did not throw before it).
Classified(f) == f.calls # << >>

\* The frame ran its classification and computed state st.
Reached(f, st) == Classified(f) /\ f.computed = st

StrictlyAscending(tab) == \A i, j \in 1..Len(tab) : i < j => tab[i] < tab[j]

\* The 0-based indices of the thresholds that are <= size.
AtMost(tab, size) == {i \in 0..(Len(tab) - 1) : tab[i + 1] <= size}

Extents(n) == <<n.xmin, n.ymin, n.zmin, n.xmax, n.ymax, n.zmax>>

\* The view-space box of the extents of n under matrix m.
ViewBoxOf(m, n) ==
    IF m = "identity" THEN ExtentsBox(n)
    ELSE Box3_fromPoints(_math_transformPoints3(m, Corners(n)))

CallOrder == <<"outer", "inner", "frustum", "size">>

IsPrefix(a, b) == Len(a) <= Len(b) /\ \A i \in 1..Len(a) : a[i] = b[i]

\* C1: with a "state-changed" listener, a frame that classifies delivers
\* "state-changed" if and only if the state it computes differs from the state the
\* previous classifying frame computed (INITIAL before the first).
C1_StateChangedIffComputedDiffers ==
    [][(op' = "render" /\ Classified(frame') /\ "state-changed" \in listeners)
          => (Fired(frame', "state-changed") <=> frame'.computed # frame.computed)]_vars

\* C2: on a node with levels and a "lod-selected" listener, a frame delivers
\* "lod-selected" if and only if the level index it selects (-1: none) differs from
\* the index the previous frame selected.
C2_LodSelectedIffSelectionDiffers ==
    [][(op' = "render" /\ Classified(frame') /\ Truthy(levels')
            /\ "lod-selected" \in listeners)
          => (Fired(frame', "lod-selected") <=> frame'.selected # frame.selected)]_vars

\* C3: a frame that reaches INTERSECT_FRUSTUM on a node with levels selects the
\* greatest index whose threshold is <= the projected size and visits that child
\* only; when no threshold is <= the size it selects no level and visits no child.
\* The documented table [10,200,400,600] gives index 1 for size 250, nothing for
\* size 5 and index 3 for size 1000.
C3_SelectsGreatestThresholdAtMostSize ==
    /\ ScanLevels(<<10, 200, 400, 600>>, 250, 3) = 1
    /\ ScanLevels(<<10, 200, 400, 600>>, 5, 3) = -1
    /\ ScanLevels(<<10, 200, 400, 600>>, 1000, 3) = 3
    /\ (Reached(frame, STATE_INTERSECTING_FRUSTUM) /\ Truthy(levels)) =>
          LET fit == AtMost(levels.val, frame.size)
          IN  /\ Called(frame, "size")
              /\ IF fit = {}
                 THEN frame.selected = -1 /\ frame.visited = {}
                 ELSE /\ frame.selected \in fit
                      /\ \A i \in fit : i <= frame.selected
                      /\ level = frame.selected
                      /\ frame.visited = {frame.selected}

C3_Witness ==
    /\ Reached(frame, STATE_INTERSECTING_FRUSTUM)
    /\ Truthy(levels)
    /\ Len(levels.val) = 2
    /\ frame.size = levels.val[2]
    /\ frame.selected = 1
    /\ frame.visited = {1}

\* C4: every delivered "state-changed" payload has oldState = the state the node held
\* before the frame and newState = the state the frame computed, so the two differ.
C4_PayloadOldStateIsPriorState ==
    [][op' = "render" =>
          \A i \in 1..Len(frame'.events) :
              frame'.events[i].name = "state-changed" =>
                  /\ frame'.events[i].oldState = state
                  /\ frame'.events[i].newState = frame'.computed
                  /\ frame'.events[i].oldState # frame'.events[i].newState]_vars

\* C5: an installed levels table is strictly ascending with one entry per child; an
\* _init given levels that violate either condition throws a configuration error,
\* and the operation that ran it classifies nothing and visits no child; nothing
\* runs on a node whose constructor threw.
C5_InstalledLevelsAscendingOnePerChild ==
    /\ Truthy(levels) => StrictlyAscending(levels.val) /\ Len(levels.val) = children
    /\ (Truthy(frame.cfg)
            /\ (Len(frame.cfg.val) # children \/ ~StrictlyAscending(frame.cfg.val)))
          => /\ frame.err \in {"length", "ascending"}
             /\ frame.calls = << >>
             /\ frame.visited = {}
             /\ frame.events = << >>
             /\ levels # frame.cfg
    /\ (op = "construct" /\ frame.err # "none") => phase = "failed"
    /\ phase = "failed" => op = "construct"

C5_Witness ==
    /\ op = "render"
    /\ frame.err = "ascending"
    /\ Truthy(levels)
    /\ Len(frame.cfg.val) = children

\* C6: reconfiguring a node, after a frame that configured and classified it, with
\* levels whose length is not the child count throws the configuration error and
\* leaves the classification state and the installed levels as they were.
C6_FailedReconfigurationKeepsState ==
    [][(op' = "render" /\ Classified(frame) /\ Truthy(frame'.cfg)
            /\ Len(frame'.cfg.val) # children)
          => /\ frame'.err = "length"
             /\ levels' = levels
             /\ state' = state]_vars

\* C7: the collaborators are asked in the order outer radius, inner radius, frustum,
\* projected size, each only after the one before it passed: a frame whose outer
\* test fails asks nothing else.
C7_CascadeShortCircuits ==
    /\ IsPrefix(frame.calls, CallOrder)
    /\ (Called(frame, "outer") /\ ~frame.outer) => frame.calls = <<"outer">>
    /\ Called(frame, "inner") => frame.outer
    /\ Called(frame, "frustum") => frame.inner
    /\ Called(frame, "size") => frame.frustum \in {"inside", "intersect"}

C7_Witness ==
    /\ op = "render"
    /\ frame.calls = <<"outer">>
    /\ ~frame.outer
    /\ Truthy(levels)

\* C8: a frame that computes INTERSECT_FRUSTUM had its outer and inner tests both
\* return true; a frame that computes OUTSIDE_OUTER visits no child.
C8_CascadeMonotonic ==
    /\ Reached(frame, STATE_INTERSECTING_FRUSTUM) =>
          /\ Called(frame, "outer") /\ frame.outer
          /\ Called(frame, "inner") /\ frame.inner
    /\ Reached(frame, STATE_OUTSIDE_OUTER_LOCALITY) =>
          frame.visited = {} /\ ~frame.outer

C8_Witness ==
    /\ op = "render"
    /\ Reached(frame, STATE_OUTSIDE_OUTER_LOCALITY)
    /\ children = MaxChildren
    /\ state = STATE_OUTSIDE_OUTER_LOCALITY

\* C9 as stated: every setter leaves memo level 0, and the frame after a setter call
\* tests the view-space box of the extents as the setter call left them.
C9_FrameTestsExtentsAfterSetter ==
    [][/\ op' = "set" => memoLevel' = 0
       /\ (op = "set" /\ op' = "render" /\ Classified(frame'))
             => viewBox' = Val(ViewBoxOf(frame'.view.matrix, This))]_vars

\* C9 as amended: every setter leaves memo level 0, and a frame entered at memo level
\* 0 tests the view-space box of the node's extents as they are when the tests run:
\* on a statically configured node the extents the setter call left, on a
\* dynamically configured node the extents its re-evaluated configuration sets.
C9_SetterResetsMemoAndFrameRecomputes ==
    [][/\ op' = "set" => memoLevel' = 0
       /\ (memoLevel = 0 /\ op' = "render" /\ Classified(frame'))
             => /\ viewBox' = Val(ViewBoxOf(frame'.view.matrix, This'))
                /\ fixedParams => Extents(This') = Extents(This)]_vars

C9_Witness ==
    /\ op = "render"
    /\ setterCalls > 0
    /\ fixedParams
    /\ Classified(frame)
    /\ frame.view.matrix = "mirror"
    /\ xmin = MaxExtent /\ ymin = 0
    /\ viewBox = Val(ViewBoxOf("mirror", This))

\* C10: after every frame that ran its classification the stored state is the state
\* that frame computed, never INITIAL.
C10_StoredStateIsComputedState ==
    (op = "render" /\ Classified(frame)) =>
        state = frame.computed /\ state # STATE_INITIAL

\* C11: a frame whose outer and inner radius tests pass and whose frustum test
\* reports fully outside computes INTERSECT_INNER, visits no child, does not ask
\* for the projected size and selects no level.
C11_FrustumMissIsIntersectInner ==
    (op = "render" /\ Called(frame, "frustum") /\ frame.outer /\ frame.inner
        /\ frame.frustum = "outside")
      => /\ frame.computed = STATE_INTERSECTING_INNER_LOCALITY
         /\ frame.visited = {}
         /\ ~Called(frame, "size")
         /\ frame.selected = -1
         /\ ~Fired(frame, "lod-selected")

C11_Witness ==
    /\ op = "render"
    /\ frame.calls = <<"outer", "inner", "frustum">>
    /\ frame.frustum = "outside"
    /\ Truthy(levels)
    /\ children = MaxChildren
    /\ frame.computed = STATE_INTERSECTING_INNER_LOCALITY

C13_AtMostTheSelectedChildVisited ==
    (Reached(frame, STATE_INTERSECTING_FRUSTUM) /\ Truthy(levels))
      => /\ Len(levels.val) = children
         /\ Cardinality(frame.visited) <= 1
         /\ frame.selected >= 0 => frame.visited = {frame.selected}
         /\ frame.visited \subseteq AllChildren(children)

C13_Witness ==
    /\ Reached(frame, STATE_INTERSECTING_FRUSTUM)
    /\ Truthy(levels)
    /\ children = MaxChildren
    /\ frame.selected = 0
    /\ frame.visited = {0}
    /\ frame.size >= levels.val[1]

\* C14: a node with a single child accepts a levels table of several ascending
\* thresholds, and every frame of it that reaches INTERSECT_FRUSTUM and selects a
\* level visits that single child, whatever index is selected.
C14_SharedChildVisitedWhateverLevel ==
    /\ (children = 1 /\ Truthy(frame.cfg) /\ Len(frame.cfg.val) > 1
            /\ StrictlyAscending(frame.cfg.val))
          => frame.err = "none" /\ levels = frame.cfg
    /\ (children = 1 /\ Truthy(levels) /\ Reached(frame, STATE_INTERSECTING_FRUSTUM)
            /\ frame.selected >= 0)
          => frame.visited = {0}

\* C15: a constructor or frame whose _init throws a configuration error leaves the
\* six extents, the levels table and the memo level as they were before the call.
C15_ConfigurationErrorLeavesNodeUntouched ==
    [][(op' \in {"construct", "render"} /\ frame'.err \in {"length", "ascending"})
          => /\ Extents(This') = Extents(This)
             /\ levels' = levels
             /\ memoLevel' = memoLevel]_vars

\* A frame that completed under a transform other than the identity.
NonIdentity(f) == f.err = "none" /\ f.view.matrix \in Matrices \ {"identity"}

\* The transform was reported fixed and instancing was not found active.
FixedNoInstancing(f) == f.view.fixed /\ f.view.instancing # "active"

\* C16 as stated: on every node, static or dynamic, a frame entered at memo level 0
\* under a non-identity transform leaves the memo level at 1 or higher, and a frame
\* entered below level 2 under a non-identity transform reported fixed, instancing
\* inactive, leaves memo level 2 with the corners discarded.
C16_EveryNodeMemoises ==
    [][(op' = "render" /\ NonIdentity(frame') /\ memoLevel < 2)
          => /\ memoLevel = 0 => memoLevel' >= 1
             /\ FixedNoInstancing(frame') => memoLevel' = 2 /\ objectCoords' = Null]_vars

\* C16 as amended: on a statically configured node a frame entered below level 2
\* under a non-identity transform leaves memo level 1 or higher, and level 2 with the
\* corners discarded exactly when the transform is reported fixed and instancing is
\* inactive; on a dynamically configured node such a frame is entered at level 0 and
\* leaves level 0 with the corners kept, whatever the transform reports.
C16_StaticNodeMemoisesDynamicStaysDirty ==
    [][(op' = "render" /\ NonIdentity(frame') /\ memoLevel < 2)
          => /\ fixedParams =>
                   /\ memoLevel' >= 1
                   /\ FixedNoInstancing(frame') => memoLevel' = 2 /\ objectCoords' = Null
                   /\ ~FixedNoInstancing(frame') => memoLevel' = 1
             /\ ~fixedParams =>
                   /\ memoLevel = 0 /\ memoLevel' = 0
                   /\ objectCoords' = Val(Corners(This'))]_vars

C16_Witness ==
    /\ op = "render"
    /\ fixedParams
    /\ NonIdentity(frame)
    /\ frame.view.fixed /\ frame.view.instancing = "inactive"
    /\ memoLevel = 2
    /\ objectCoords = Null

\* C17: a frame entered below memo level 2 under a non-identity transform that is
\* not reported fixed, or that is reported fixed while instancing is active (found
\* active, or not asked about and so possibly active), leaves the memo level below 2,
\* keeps the corners, and tests the box it recomputes from the corners and the matrix
\* of that frame; so no run of such frames reaches level 2.
C17_UnfixedOrInstancedStaysBelowTwo ==
    [][(op' = "render" /\ NonIdentity(frame') /\ memoLevel < 2
            /\ (~frame'.view.fixed \/ frame'.view.instancing # "inactive"))
          => /\ memoLevel' < 2
             /\ Truthy(objectCoords')
             /\ frame'.view.corners = objectCoords'
             /\ viewBox' = Val(Box3_fromPoints(
                                 _math_transformPoints3(frame'.view.matrix, objectCoords'.val)))
             /\ frame'.view.box = viewBox']_vars

C17_Witness ==
    /\ op = "render"
    /\ NonIdentity(frame)
    /\ frame.view.fixed /\ frame.view.instancing = "active"
    /\ memoLevel = 1
    /\ Truthy(objectCoords)

\* C18: a frame entered at memo level 2 leaves the memo level, the view-space box and
\* the corner cache as they were, reads no transform, evaluates no configuration and
\* runs its tests on the cached box; only a setter call takes the node out of level 2.
C18_MemoTwoFrameReusesBox ==
    [][/\ (memoLevel = 2 /\ op' = "render")
             => /\ memoLevel' = 2
                /\ viewBox' = viewBox
                /\ objectCoords' = objectCoords
                /\ frame'.view.matrix = "unread"
                /\ frame'.view.corners = NotUsed
                /\ frame'.cfg = Undefined
                /\ frame'.err = "none"
                /\ Classified(frame')
                /\ frame'.view.box = viewBox
       /\ (memoLevel = 2 /\ memoLevel' # 2) => op' = "set"]_vars

C18_Witness ==
    /\ op = "render"
    /\ ~fixedParams
    /\ memoLevel = 2
    /\ frame.view.matrix = "unread"
    /\ Classified(frame)
    /\ frame.view.box = viewBox

\* C19: no frame fails on a missing cache: whenever a frame transforms the corners,
\* they are present and are the 8 corners of the node's extents, and whenever the
\* tests run, the box handed to them is defined.
C19_CachesDefinedWhereUsed ==
    op = "render" =>
        /\ frame.err # "type"
        /\ frame.view.corners # NotUsed =>
              /\ Truthy(frame.view.corners)
              /\ frame.view.corners = Val(Corners(This))
        /\ Classified(frame) =>
              /\ Truthy(frame.view.box)
              /\ frame.view.box = viewBox

C19_Witness ==
    /\ op = "render"
    /\ setterCalls = 0
    /\ Classified(frame)
    /\ frame.view.corners = Val(Corners(This))
    /\ xmax = MaxExtent
    /\ Truthy(frame.view.box)

\* C20: the copy of the node without listeners, given the same setter calls, frames
\* and collaborator answers, holds the same classification state, selected level and
\* memo level and visits the same children after every operation, and delivers no
\* notification.
C20_ListenersChangeOnlyDelivery ==
    /\ quiet.node.state = state
    /\ quiet.node.level = level
    /\ quiet.node.memoLevel = memoLevel
    /\ quiet.frame.visited = frame.visited
    /\ quiet.frame.err = frame.err
    /\ quiet.frame.events = << >>
    /\ listeners = {} => frame.events = << >>

C20_Witness ==
    /\ op = "render"
    /\ listeners = {"state-changed", "lod-selected"}
    /\ Fired(frame, "state-changed")
    /\ Fired(frame, "lod-selected")
    /\ quiet.frame.events = << >>
    /\ quiet.node.state = STATE_INTERSECTING_FRUSTUM
    /\ quiet.frame.visited = frame.visited
    /\ frame.visited # {}

====
